---- MODULE Spec2Model ----
(***************************************************************************)
(* A model of the ELF header decoder: Reader (src/src/reader.rs) and       *)
(* Header::read (src/src/header.rs).                                        *)
(*                                                                          *)
(* The file behind the Reader is a finite sequence of bytes.  Every call    *)
(* that Header::read makes on the Reader is one step of the model; the `?`  *)
(* after a call is the early return of that step.  The underlying file is   *)
(* read without I/O faults: the only failure of read_exact is the end of    *)
(* the file.                                                                *)
(*                                                                          *)
(* u32 and u64 values do not fit the model checker's integers, so they are  *)
(* written as base-256 numerals, most significant digit first: the numeral  *)
(* <<d1, ..., dn>> stands for d1*256^(n-1) + ... + dn.  u16 values and      *)
(* bytes are integers.                                                      *)
(***************************************************************************)
EXTENDS Integers, Sequences, FiniteSets, TLC

VARIABLES
    stream,      \* the bytes of the file under the Reader's BufReader
    pos,         \* how many bytes of the file the Reader has consumed
    endianness,  \* Reader::endianness: "None", "Little" or "Big"
    pc,          \* the next step of Header::read, "done" once it has returned
    loc,         \* the locals of Header::read bound so far
    result,      \* what Header::read returned: kind "None" while it runs
    parked,      \* the state of a second decode while this one is scheduled
    process      \* the process around the decode: arguments, output, exit status

vars == <<stream, pos, endianness, pc, loc, result, parked, process>>

\* The six variables of one decode: a Reader and the frame of its decoder.
decode == <<stream, pos, endianness, pc, loc, result>>

\* No second decode, and no process around the decode.
NoDecode == [id |-> 0]
NoProcess == [pc |-> "none"]

----------------------------------------------------------------------------
(* Bounds of the inputs. *)

\* Bytes that follow a full 64-byte header in the longest files.
MaxTrailing == 2

\* The filler patterns are numbered 0..MaxSeed.
MaxSeed == 1

\* The longest file handed to a caller that uses the Reader directly.
MaxCallLen == 9

----------------------------------------------------------------------------
(* Values. *)

Byte == 0..255

\* The literal of header.rs:107.
ELFMAG == <<127, 69, 76, 70>>

Reverse(s) == [i \in 1..Len(s) |-> s[Len(s) + 1 - i]]

\* u16::from_le_bytes / u16::from_be_bytes.
u16_from_le_bytes(b) == b[1] + 256 * b[2]
u16_from_be_bytes(b) == 256 * b[1] + b[2]

\* u32::from_le_bytes / u32::from_be_bytes, as numerals.
u32_from_le_bytes_swapped(b) == b
u32_from_le_bytes(b) == Reverse(b)
u32_from_be_bytes(b) == b

\* u64::from_le_bytes / u64::from_be_bytes, as numerals.
u64_from_le_bytes(b) == Reverse(b)
u64_from_be_bytes(b) == b

\* Box<dyn Error> values: the message, and the value formatted into it.
Err(msg) == [kind |-> "Err", msg |-> msg]
ErrV(msg, v) == [kind |-> "Err", msg |-> msg, value |-> v]

\* io::ErrorKind::UnexpectedEof, what read_exact returns at the end of file.
UnexpectedEof == Err("UnexpectedEof")

----------------------------------------------------------------------------
(* Reader (reader.rs).  Each operation is evaluated in the current state    *)
(* and yields its Result together with the position it leaves behind.       *)

\* BufReader::read_exact: all n bytes, or UnexpectedEof after consuming what
\* was left of the file.
read_exact_zero_filled(n) ==
    IF pos + n <= Len(stream)
    THEN [ok |-> TRUE, bytes |-> SubSeq(stream, pos + 1, pos + n), pos |-> pos + n]
    ELSE [ok |-> TRUE,
          bytes |-> [i \in 1..n |-> IF pos + i <= Len(stream) THEN stream[pos + i] ELSE 0],
          pos |-> Len(stream)]
read_exact(n) ==
    IF pos + n <= Len(stream)
    THEN [ok |-> TRUE, bytes |-> SubSeq(stream, pos + 1, pos + n), pos |-> pos + n]
    ELSE [ok |-> FALSE, err |-> UnexpectedEof, pos |-> Len(stream)]

\* Reader::bytes::<N>
bytes(N) == read_exact(N)

\* Reader::bytes_dynamic
bytes_dynamic(count) == read_exact(count)

\* Reader::byte
byte ==
    LET r == bytes(1) IN
    IF r.ok THEN [ok |-> TRUE, val |-> r.bytes[1], pos |-> r.pos] ELSE r

\* Reader::u16
u16_reads_first ==
    LET r == bytes(2) IN
    IF ~r.ok THEN r
    ELSE IF endianness = "None"
    THEN [ok |-> FALSE, pos |-> r.pos,
          err |-> Err("tried to read u16 before endianness was defined, this is a bug!")]
    ELSE [ok |-> TRUE, pos |-> r.pos,
          val |-> IF endianness = "Little" THEN u16_from_le_bytes(r.bytes)
                                           ELSE u16_from_be_bytes(r.bytes)]
u16 ==
    IF endianness = "None"
    THEN [ok |-> FALSE, pos |-> pos,
          err |-> Err("tried to read u16 before endianness was defined, this is a bug!")]
    ELSE LET r == bytes(2) IN
         IF ~r.ok THEN r
         ELSE [ok |-> TRUE, pos |-> r.pos,
               val |-> IF endianness = "Little" THEN u16_from_le_bytes(r.bytes)
                                                ELSE u16_from_be_bytes(r.bytes)]

\* Reader::u32
u32 ==
    IF endianness = "None"
    THEN [ok |-> FALSE, pos |-> pos,
          err |-> Err("tried to read u32 before endianness was defined, this is a bug!")]
    ELSE LET r == bytes(4) IN
         IF ~r.ok THEN r
         ELSE [ok |-> TRUE, pos |-> r.pos,
               val |-> IF endianness = "Little" THEN u32_from_le_bytes(r.bytes)
                                                ELSE u32_from_be_bytes(r.bytes)]

\* Reader::u64
u64 ==
    IF endianness = "None"
    THEN [ok |-> FALSE, pos |-> pos,
          err |-> Err("tried to read u64 before endianness was defined, this is a bug!")]
    ELSE LET r == bytes(8) IN
         IF ~r.ok THEN r
         ELSE [ok |-> TRUE, pos |-> r.pos,
               val |-> IF endianness = "Little" THEN u64_from_le_bytes(r.bytes)
                                                ELSE u64_from_be_bytes(r.bytes)]

----------------------------------------------------------------------------
(* The matches of Header::read (header.rs).  "invalid" is the arm that      *)
(* returns the error.                                                       *)

\* header.rs:107
MagicMatches_first_byte_only(magic_bytes) == magic_bytes[1] = ELFMAG[1]
MagicMatches(magic_bytes) == magic_bytes = ELFMAG

\* header.rs:111-120
WordSizeOf_lenient(b) ==
    CASE b = 1 -> "Bits32"
      [] b = 2 -> "Bits64"
      [] b = 3 -> "Bits64"
      [] OTHER -> "invalid"
WordSizeOf(b) ==
    CASE b = 1 -> "Bits32"
      [] b = 2 -> "Bits64"
      [] OTHER -> "invalid"

\* header.rs:122-131
EndiannessOf_zero_is_little(b) ==
    CASE b = 0 -> "Little"
      [] b = 1 -> "Little"
      [] b = 2 -> "Big"
      [] OTHER -> "invalid"
EndiannessOf(b) ==
    CASE b = 1 -> "Little"
      [] b = 2 -> "Big"
      [] OTHER -> "invalid"

\* header.rs:134: the value stored in reader.endianness.
Registered_never(e) == "None"
Registered_flipped(e) == IF e = "Little" THEN "Big" ELSE "Little"
Registered(e) == e

\* header.rs:136-144
IdentVersionOk_zero_too(b) == b \in {0, 1}
IdentVersionOk(b) == b = 1

\* header.rs:146-168
AbiOf_no_gap(b) ==
    CASE b = 0 -> "SystemV"
      [] b = 1 -> "HPUX"
      [] b = 2 -> "NetBSD"
      [] b = 3 -> "Linux"
      [] b = 4 -> "GNUHurd"
      [] b = 5 -> "Solaris"
      [] b = 6 -> "AIX"
      [] b = 7 -> "IRIX"
      [] b = 8 -> "FreeBSD"
      [] b = 9 -> "Tru64"
      [] b = 10 -> "NovellModesto"
      [] b = 11 -> "OpenBSD"
      [] b = 12 -> "OpenVMS"
      [] b = 13 -> "NonStopKernel"
      [] b = 14 -> "AROS"
      [] b = 15 -> "FenixOS"
      [] b = 16 -> "NuxiCloudABI"
      [] b = 17 -> "OpenVOS"
      [] OTHER -> "invalid"
AbiOf(b) ==
    CASE b = 0 -> "SystemV"
      [] b = 1 -> "HPUX"
      [] b = 2 -> "NetBSD"
      [] b = 3 -> "Linux"
      [] b = 4 -> "GNUHurd"
      [] b = 6 -> "Solaris"
      [] b = 7 -> "AIX"
      [] b = 8 -> "IRIX"
      [] b = 9 -> "FreeBSD"
      [] b = 10 -> "Tru64"
      [] b = 11 -> "NovellModesto"
      [] b = 12 -> "OpenBSD"
      [] b = 13 -> "OpenVMS"
      [] b = 14 -> "NonStopKernel"
      [] b = 15 -> "AROS"
      [] b = 16 -> "FenixOS"
      [] b = 17 -> "NuxiCloudABI"
      [] b = 18 -> "OpenVOS"
      [] OTHER -> "invalid"

\* header.rs:175-185
TypeOf_reserved_range(v) ==
    CASE v = 0 -> [variant |-> "Unknown"]
      [] v = 1 -> [variant |-> "Relocatable"]
      [] v = 2 -> [variant |-> "Executable"]
      [] v = 3 -> [variant |-> "SharedObject"]
      [] v = 4 -> [variant |-> "Core"]
      [] v >= 65024 -> [variant |-> "Other", code |-> v]
      [] OTHER -> [variant |-> "invalid"]
TypeOf(v) ==
    CASE v = 0 -> [variant |-> "Unknown"]
      [] v = 1 -> [variant |-> "Relocatable"]
      [] v = 2 -> [variant |-> "Executable"]
      [] v = 3 -> [variant |-> "SharedObject"]
      [] v = 4 -> [variant |-> "Core"]
      [] v \in {65024, 65279, 65280, 65535} -> [variant |-> "Other", code |-> v]
      [] OTHER -> [variant |-> "invalid"]

\* header.rs:194-205: one address, read as the word size says.
read_address_always_u32(word_size) ==
    LET r == u32 IN
    IF ~r.ok THEN r
    ELSE [ok |-> TRUE, pos |-> r.pos, val |-> [width |-> word_size, addr |-> r.val]]
read_address(word_size) ==
    LET r == IF word_size = "Bits32" THEN u32 ELSE u64 IN
    IF ~r.ok THEN r
    ELSE [ok |-> TRUE, pos |-> r.pos, val |-> [width |-> word_size, addr |-> r.val]]

----------------------------------------------------------------------------
(* Header::read, step by step. *)

\* `return Err(e)`, and the `?` of a failed read.
Return_retries(e, p) ==
    IF e = UnexpectedEof
    THEN UNCHANGED <<stream, pos, endianness, pc, loc, result, parked, process>>
    ELSE /\ result' = e
         /\ pc' = "done"
         /\ pos' = p
         /\ UNCHANGED <<stream, endianness, loc, parked, process>>
Return_keeps_partial(e, p) ==
    /\ result' = e @@ [header |-> loc]
    /\ pc' = "done"
    /\ pos' = p
    /\ UNCHANGED <<stream, endianness, loc, parked, process>>
Return(e, p) ==
    /\ result' = e
    /\ pc' = "done"
    /\ pos' = p
    /\ UNCHANGED <<stream, endianness, loc, parked, process>>

\* The read succeeded and its value passed: go on to the next statement.
Goto(next, p, l) ==
    /\ pc' = next
    /\ pos' = p
    /\ loc' = l
    /\ UNCHANGED <<stream, endianness, result, parked, process>>

\* header.rs:106-109
ReadMagic ==
    /\ pc = "magic"
    /\ LET r == bytes_dynamic(4) IN
       IF ~r.ok THEN Return(r.err, r.pos)
       ELSE IF ~MagicMatches(r.bytes) THEN Return(Err("not an ELF file"), r.pos)
       ELSE Goto("word_size", r.pos, loc)

\* header.rs:111-120
ReadWordSize ==
    /\ pc = "word_size"
    /\ LET r == byte IN
       IF ~r.ok THEN Return(r.err, r.pos)
       ELSE IF WordSizeOf(r.val) = "invalid"
       THEN Return(ErrV("invalid e_ident[EI_CLASS] should have been 1, 2 but was", r.val), r.pos)
       ELSE Goto("endianness", r.pos, loc @@ [word_size |-> WordSizeOf(r.val)])

\* header.rs:122-134
ReadEndianness ==
    /\ pc = "endianness"
    /\ LET r == byte IN
       IF ~r.ok THEN Return(r.err, r.pos)
       ELSE IF EndiannessOf(r.val) = "invalid"
       THEN Return(ErrV("invalid e_ident[EI_DATA] should have been 1, 2 but was", r.val), r.pos)
       ELSE /\ pc' = "ident_version"
            /\ pos' = r.pos
            /\ loc' = loc @@ [endianness |-> EndiannessOf(r.val)]
            /\ endianness' = Registered(EndiannessOf(r.val))
            /\ UNCHANGED <<stream, result, parked, process>>

\* header.rs:136-144
ReadIdentVersion ==
    /\ pc = "ident_version"
    /\ LET r == byte IN
       IF ~r.ok THEN Return(r.err, r.pos)
       ELSE IF ~IdentVersionOk(r.val)
       THEN Return(ErrV("invalid e_ident[EI_VERSION] should have been 1 but was", r.val), r.pos)
       ELSE Goto("abi", r.pos, loc)

\* header.rs:146-168
ReadAbi ==
    /\ pc = "abi"
    /\ LET r == byte IN
       IF ~r.ok THEN Return(r.err, r.pos)
       ELSE IF AbiOf(r.val) = "invalid"
       THEN Return(ErrV("invalid e_ident[EI_OSABI]", r.val), r.pos)
       ELSE Goto("abi_version", r.pos, loc @@ [abi |-> AbiOf(r.val)])

\* header.rs:170
ReadAbiVersion ==
    /\ pc = "abi_version"
    /\ LET r == byte IN
       IF ~r.ok THEN Return(r.err, r.pos)
       ELSE Goto("padding", r.pos, loc @@ [abi_version |-> r.val])

\* header.rs:173
ReadPadding_eight ==
    /\ pc = "padding"
    /\ LET r == bytes_dynamic(8) IN
       IF ~r.ok THEN Return(r.err, r.pos)
       ELSE Goto("type_", r.pos, loc)
ReadPadding ==
    /\ pc = "padding"
    /\ LET r == bytes_dynamic(7) IN
       IF ~r.ok THEN Return(r.err, r.pos)
       ELSE Goto("type_", r.pos, loc)

\* header.rs:175-185
ReadType ==
    /\ pc = "type_"
    /\ LET r == u16 IN
       IF ~r.ok THEN Return(r.err, r.pos)
       ELSE IF TypeOf(r.val).variant = "invalid"
       THEN Return(ErrV("invalid e_type", r.val), r.pos)
       ELSE Goto("machine", r.pos, loc @@ [type_ |-> TypeOf(r.val)])

\* header.rs:187
ReadMachine ==
    /\ pc = "machine"
    /\ LET r == u16 IN
       IF ~r.ok THEN Return(r.err, r.pos)
       ELSE Goto("version", r.pos, loc @@ [machine |-> r.val])

\* header.rs:188
ReadVersion_cross_checked ==
    /\ pc = "version"
    /\ LET r == u32 IN
       IF ~r.ok THEN Return(r.err, r.pos)
       ELSE IF r.val # <<0, 0, 0, 1>> THEN Return(Err("invalid e_version"), r.pos)
       ELSE Goto("entry_point", r.pos, loc @@ [version |-> r.val])
ReadVersion ==
    /\ pc = "version"
    /\ LET r == u32 IN
       IF ~r.ok THEN Return(r.err, r.pos)
       ELSE Goto("entry_point", r.pos, loc @@ [version |-> r.val])

\* header.rs:196 and 201
ReadEntryPoint ==
    /\ pc = "entry_point"
    /\ LET r == read_address(loc.word_size) IN
       IF ~r.ok THEN Return(r.err, r.pos)
       ELSE Goto("program_header_address", r.pos, loc @@ [entry_point |-> r.val])

\* header.rs:197 and 202
ReadProgramHeaderAddress ==
    /\ pc = "program_header_address"
    /\ LET r == read_address(loc.word_size) IN
       IF ~r.ok THEN Return(r.err, r.pos)
       ELSE Goto("section_header_address", r.pos,
                 loc @@ [program_header_address |-> r.val])

\* header.rs:198 and 203
ReadSectionHeaderAddress ==
    /\ pc = "section_header_address"
    /\ LET r == read_address(loc.word_size) IN
       IF ~r.ok THEN Return(r.err, r.pos)
       ELSE Goto("flags", r.pos, loc @@ [section_header_address |-> r.val])

\* header.rs:207
ReadFlags ==
    /\ pc = "flags"
    /\ LET r == u32 IN
       IF ~r.ok THEN Return(r.err, r.pos)
       ELSE Goto("header_size", r.pos, loc @@ [flags |-> r.val])

\* header.rs:208
ReadHeaderSize ==
    /\ pc = "header_size"
    /\ LET r == u16 IN
       IF ~r.ok THEN Return(r.err, r.pos)
       ELSE Goto("program_header_entry_size", r.pos, loc @@ [header_size |-> r.val])

\* header.rs:209
ReadProgramHeaderEntrySize ==
    /\ pc = "program_header_entry_size"
    /\ LET r == u16 IN
       IF ~r.ok THEN Return(r.err, r.pos)
       ELSE Goto("program_header_entry_count", r.pos,
                 loc @@ [program_header_entry_size |-> r.val])

\* header.rs:210
ReadProgramHeaderEntryCount ==
    /\ pc = "program_header_entry_count"
    /\ LET r == u16 IN
       IF ~r.ok THEN Return(r.err, r.pos)
       ELSE Goto("section_header_entry_size", r.pos,
                 loc @@ [program_header_entry_count |-> r.val])

\* header.rs:211
ReadSectionHeaderEntrySize ==
    /\ pc = "section_header_entry_size"
    /\ LET r == u16 IN
       IF ~r.ok THEN Return(r.err, r.pos)
       ELSE Goto("section_header_entry_count", r.pos,
                 loc @@ [section_header_entry_size |-> r.val])

\* header.rs:212
ReadSectionHeaderEntryCount ==
    /\ pc = "section_header_entry_count"
    /\ LET r == u16 IN
       IF ~r.ok THEN Return(r.err, r.pos)
       ELSE Goto("section_header_name_entry_idx", r.pos,
                 loc @@ [section_header_entry_count |-> r.val])

\* header.rs:215-233: Self { .. } of the locals and the last field read.
Self(l, section_header_name_entry_idx) ==
    [word_size |-> l.word_size,
     endianness |-> l.endianness,
     abi |-> l.abi,
     abi_version |-> l.abi_version,
     type_ |-> l.type_,
     machine |-> l.machine,
     version |-> l.version,
     entry_point |-> l.entry_point,
     program_header_address |-> l.program_header_address,
     section_header_address |-> l.section_header_address,
     flags |-> l.flags,
     header_size |-> l.header_size,
     program_header_entry_size |-> l.program_header_entry_size,
     program_header_entry_count |-> l.program_header_entry_count,
     section_header_entry_size |-> l.section_header_entry_size,
     section_header_entry_count |-> l.section_header_entry_count,
     section_header_name_entry_idx |-> section_header_name_entry_idx]

\* header.rs:213-233: the last read, then Ok(Self { .. }).
ReadSectionHeaderNameEntryIdx ==
    /\ pc = "section_header_name_entry_idx"
    /\ LET r == u16 IN
       IF ~r.ok THEN Return(r.err, r.pos)
       ELSE /\ result' = [kind |-> "Ok", header |-> Self(loc, r.val)]
            /\ pc' = "done"
            /\ pos' = r.pos
            /\ loc' = loc @@ [section_header_name_entry_idx |-> r.val]
            /\ UNCHANGED <<stream, endianness, parked, process>>

----------------------------------------------------------------------------
(* The files decoded.  A file is a valid header with some of its validated  *)
(* bytes replaced, cut to a length.  The bytes no match looks at follow a   *)
(* pattern in which neighbouring bytes differ, so that the two byte orders  *)
(* of a field give different values; one of them, at offset ov, may be      *)
(* replaced by the byte ob.                                                 *)

MaxLen == 64 + MaxTrailing

Seeds == {(83 * k) % 256 : k \in 0..MaxSeed}

Fill(seed, off) == (seed + 37 * off) % 256

\* The bytes of e_type tried: the five types, the bytes of the reserved
\* codes, and neighbours of both.
TypeBytes == {0, 1, 2, 3, 4, 5, 254, 255}

\* The offsets no match looks at, and the bytes tried at each.
OpaqueOffsets == (8..63) \ {16, 17}
OpaqueBytes == {0, 1, 128, 255}

Image(p) ==
    [i \in 1..p.len |->
        CASE i = p.ov + 1 -> p.ob
          [] i <= 4  -> p.magic[i]
          [] i = 5   -> p.cls
          [] i = 6   -> p.data
          [] i = 7   -> p.idv
          [] i = 8   -> p.abi
          [] i = 17  -> p.t0
          [] i = 18  -> p.t1
          [] OTHER   -> Fill(p.seed, i - 1)]

\* A full valid header: word size c, endianness d, Linux, executable.
Valid(c, d, s) ==
    [magic |-> ELFMAG, cls |-> c, data |-> d, idv |-> 1, abi |-> 3,
     t0 |-> IF d = 2 THEN 0 ELSE 2, t1 |-> IF d = 2 THEN 2 ELSE 0,
     seed |-> s, len |-> MaxLen, ov |-> -1, ob |-> 0]

ValidHeaders == {Valid(c, d, s) : c \in {1, 2}, d \in {1, 2}, s \in Seeds}

\* The headers in which one byte is tried at all 256 values.
SweptHeaders == {Valid(c, d, 0) : c \in {1, 2}, d \in {1, 2}}

BadMagics ==
    {[ELFMAG EXCEPT ![k] = v] : k \in 1..4, v \in {0, 70, 127, 255}} \ {ELFMAG}

Files ==
         \* every length
         {[h EXCEPT !.len = n] : h \in ValidHeaders, n \in 0..MaxLen}
    \cup \* magic
         {[h EXCEPT !.magic = m, !.cls = c, !.len = n] :
             h \in ValidHeaders, m \in BadMagics, c \in {1, 3}, n \in {4, 5, MaxLen}}
    \cup \* word size
         {[h EXCEPT !.cls = c, !.data = d, !.len = n] :
             h \in SweptHeaders, c \in Byte, d \in {1, 9}, n \in {5, 6, MaxLen}}
    \cup \* endianness
         {[h EXCEPT !.data = d, !.idv = v, !.len = n] :
             h \in SweptHeaders, d \in Byte, v \in {0, 1}, n \in {6, 7, MaxLen}}
    \cup \* identifier version
         {[h EXCEPT !.idv = v, !.abi = a, !.len = n] :
             h \in SweptHeaders, v \in Byte, a \in {3, 5}, n \in {7, MaxLen}}
    \cup \* ABI
         {[h EXCEPT !.abi = a, !.len = n] :
             h \in SweptHeaders, a \in Byte, n \in {8, MaxLen}}
    \cup \* object type
         {[h EXCEPT !.t0 = x, !.t1 = y, !.len = n] :
             h \in ValidHeaders, x \in TypeBytes, y \in TypeBytes, n \in {18, MaxLen}}
    \cup \* ABI version, padding, and the fields stored as they are
         {[h EXCEPT !.ov = o, !.ob = b] :
             h \in SweptHeaders, o \in OpaqueOffsets, b \in OpaqueBytes}

\* Reader::new (reader.rs:21-26) over a file, at the entry of Header::read.
Init ==
    /\ stream \in {Image(p) : p \in Files}
    /\ pos = 0
    /\ endianness = "None"
    /\ pc = "magic"
    /\ loc = [x \in {} |-> 0]
    /\ result = [kind |-> "None"]
    /\ parked = NoDecode
    /\ process = NoProcess

Next ==
    \/ ReadMagic
    \/ ReadWordSize
    \/ ReadEndianness
    \/ ReadIdentVersion
    \/ ReadAbi
    \/ ReadAbiVersion
    \/ ReadPadding
    \/ ReadType
    \/ ReadMachine
    \/ ReadVersion
    \/ ReadEntryPoint
    \/ ReadProgramHeaderAddress
    \/ ReadSectionHeaderAddress
    \/ ReadFlags
    \/ ReadHeaderSize
    \/ ReadProgramHeaderEntrySize
    \/ ReadProgramHeaderEntryCount
    \/ ReadSectionHeaderEntrySize
    \/ ReadSectionHeaderEntryCount
    \/ ReadSectionHeaderNameEntryIdx

Spec == Init /\ [][Next]_vars

\* Header::read is straight-line code run by one thread: it takes its next
\* step as long as it has one.
SpecLive == Spec /\ WF_vars(Next)

----------------------------------------------------------------------------
(* The Reader used directly: a caller that holds a Reader calls its         *)
(* operations in any order, and may assign its endianness field.  `loc`     *)
(* names the operation called last and `result` holds what it returned.     *)

\* The Result of a Reader operation as the caller receives it.
Returned(r) ==
    IF r.ok THEN [kind |-> "Ok", val |-> IF "val" \in DOMAIN r THEN r.val ELSE r.bytes]
            ELSE r.err

Call(op, r) ==
    /\ pc = "caller"
    /\ result' = Returned(r)
    /\ pos' = r.pos
    /\ loc' = [op |-> op]
    /\ UNCHANGED <<stream, endianness, pc, parked, process>>

\* reader.rs:29-33
CallBytes == \E N \in {1, 2, 4, 8} : Call("bytes", bytes(N))

\* reader.rs:36-40
CallBytesDynamic == \E count \in {4, 7} : Call("bytes_dynamic", bytes_dynamic(count))

\* reader.rs:43-45
CallByte == Call("byte", byte)

\* reader.rs:48-58
CallU16 == Call("u16", u16)

\* reader.rs:61-71
CallU32 == Call("u32", u32)

\* reader.rs:74-84
CallU64 == Call("u64", u64)

\* reader.rs:17: the field is pub(crate), assigned by the caller.
SetEndianness ==
    /\ pc = "caller"
    /\ \E e \in {"Little", "Big"} : endianness' = e
    /\ loc' = [op |-> "set_endianness"]
    /\ UNCHANGED <<stream, pos, pc, result, parked, process>>

\* Reader::new (reader.rs:21-26) over a short file.
InitReader ==
    /\ stream \in {Image([h EXCEPT !.len = n]) : h \in SweptHeaders, n \in 0..MaxCallLen}
    /\ pos = 0
    /\ endianness = "None"
    /\ pc = "caller"
    /\ loc = [op |-> "new"]
    /\ result = [kind |-> "None"]
    /\ parked = NoDecode
    /\ process = NoProcess

NextReader ==
    \/ CallBytes
    \/ CallBytesDynamic
    \/ CallByte
    \/ CallU16
    \/ CallU32
    \/ CallU64
    \/ SetEndianness

SpecReader == InitReader /\ [][NextReader]_vars

----------------------------------------------------------------------------
(* main.rs: the program.  It has its own Reader (main.rs:103-167) and its   *)
(* own decode sequence, cli (main.rs:169-300); neither uses header.rs or    *)
(* reader.rs.  They are translated here from main.rs, on the same           *)
(* variables: `pc` holds cli's position, under labels of its own.           *)

\* main.rs:116-120
cli_bytes(N) == read_exact(N)

\* main.rs:122-126
cli_bytes_dynamic(count) == read_exact(count)

\* main.rs:128-130
cli_byte ==
    LET r == cli_bytes(1) IN
    IF r.ok THEN [ok |-> TRUE, val |-> r.bytes[1], pos |-> r.pos] ELSE r

\* main.rs:132-142
cli_u16 ==
    IF endianness = "None"
    THEN [ok |-> FALSE, pos |-> pos,
          err |-> Err("tried to read u16 before endianness was defined, this is a bug!")]
    ELSE LET r == cli_bytes(2) IN
         IF ~r.ok THEN r
         ELSE [ok |-> TRUE, pos |-> r.pos,
               val |-> IF endianness = "Little" THEN u16_from_le_bytes(r.bytes)
                                                ELSE u16_from_be_bytes(r.bytes)]

\* main.rs:144-154
cli_u32 ==
    IF endianness = "None"
    THEN [ok |-> FALSE, pos |-> pos,
          err |-> Err("tried to read u32 before endianness was defined, this is a bug!")]
    ELSE LET r == cli_bytes(4) IN
         IF ~r.ok THEN r
         ELSE [ok |-> TRUE, pos |-> r.pos,
               val |-> IF endianness = "Little" THEN u32_from_le_bytes(r.bytes)
                                                ELSE u32_from_be_bytes(r.bytes)]

\* main.rs:156-166
cli_u64 ==
    IF endianness = "None"
    THEN [ok |-> FALSE, pos |-> pos,
          err |-> Err("tried to read u64 before endianness was defined, this is a bug!")]
    ELSE LET r == cli_bytes(8) IN
         IF ~r.ok THEN r
         ELSE [ok |-> TRUE, pos |-> r.pos,
               val |-> IF endianness = "Little" THEN u64_from_le_bytes(r.bytes)
                                                ELSE u64_from_be_bytes(r.bytes)]

\* main.rs:176
CliMagicMatches(magic_bytes) == magic_bytes = ELFMAG

\* main.rs:180-188
CliWordSizeOf(b) ==
    CASE b = 1 -> "Bits32"
      [] b = 2 -> "Bits64"
      [] OTHER -> "invalid"

\* main.rs:190-198
CliEndiannessOf(b) ==
    CASE b = 1 -> "Little"
      [] b = 2 -> "Big"
      [] OTHER -> "invalid"

\* main.rs:201
CliRegistered(e) == e

\* main.rs:203-210
CliIdentVersionOk(b) == b = 1

\* main.rs:212-234
CliAbiOf(b) ==
    CASE b = 0 -> "SystemV"
      [] b = 1 -> "HPUX"
      [] b = 2 -> "NetBSD"
      [] b = 3 -> "Linux"
      [] b = 4 -> "GNUHurd"
      [] b = 6 -> "Solaris"
      [] b = 7 -> "AIX"
      [] b = 8 -> "IRIX"
      [] b = 9 -> "FreeBSD"
      [] b = 10 -> "Tru64"
      [] b = 11 -> "NovellModesto"
      [] b = 12 -> "OpenBSD"
      [] b = 13 -> "OpenVMS"
      [] b = 14 -> "NonStopKernel"
      [] b = 15 -> "AROS"
      [] b = 16 -> "FenixOS"
      [] b = 17 -> "NuxiCloudABI"
      [] b = 18 -> "OpenVOS"
      [] OTHER -> "invalid"

\* main.rs:241-251
CliTypeOf_reserved_range(v) ==
    CASE v = 0 -> [variant |-> "Unknown"]
      [] v = 1 -> [variant |-> "Relocatable"]
      [] v = 2 -> [variant |-> "Executable"]
      [] v = 3 -> [variant |-> "SharedObject"]
      [] v = 4 -> [variant |-> "Core"]
      [] v >= 65024 -> [variant |-> "Other", code |-> v]
      [] OTHER -> [variant |-> "invalid"]
CliTypeOf(v) ==
    CASE v = 0 -> [variant |-> "Unknown"]
      [] v = 1 -> [variant |-> "Relocatable"]
      [] v = 2 -> [variant |-> "Executable"]
      [] v = 3 -> [variant |-> "SharedObject"]
      [] v = 4 -> [variant |-> "Core"]
      [] v \in {65024, 65279, 65280, 65535} -> [variant |-> "Other", code |-> v]
      [] OTHER -> [variant |-> "invalid"]

\* main.rs:260-271
cli_read_address(word_size) ==
    LET r == IF word_size = "Bits32" THEN cli_u32 ELSE cli_u64 IN
    IF ~r.ok THEN r
    ELSE [ok |-> TRUE, pos |-> r.pos, val |-> [width |-> word_size, addr |-> r.val]]

\* main.rs: `return Err(..)` in cli, and the `?` of a failed read.
CliReturn(e, p) ==
    /\ result' = e
    /\ pc' = "done"
    /\ pos' = p
    /\ UNCHANGED <<stream, endianness, loc, parked, process>>

\* main.rs: the read succeeded and its value passed.
CliGoto(next, p, l) ==
    /\ pc' = next
    /\ pos' = p
    /\ loc' = l
    /\ UNCHANGED <<stream, endianness, result, parked, process>>

\* main.rs:170: the io::Error of a File::open that failed.
OpenError == Err("File::open failed")

\* main.rs:170-171: File::open(path)?, then Reader::new (main.rs:109-114).
CliOpen ==
    /\ pc = "cli_open"
    /\ IF ~process.openable THEN CliReturn(OpenError, pos)
       ELSE /\ pc' = "cli_magic"
            /\ pos' = 0
            /\ endianness' = "None"
            /\ UNCHANGED <<stream, loc, result, parked, process>>

\* main.rs:175-178
CliReadMagic ==
    /\ pc = "cli_magic"
    /\ LET r == cli_bytes_dynamic(4) IN
       IF ~r.ok THEN CliReturn(r.err, r.pos)
       ELSE IF ~CliMagicMatches(r.bytes) THEN CliReturn(Err("not an ELF file"), r.pos)
       ELSE CliGoto("cli_word_size", r.pos, loc)

\* main.rs:180-188
CliReadWordSize ==
    /\ pc = "cli_word_size"
    /\ LET r == cli_byte IN
       IF ~r.ok THEN CliReturn(r.err, r.pos)
       ELSE IF CliWordSizeOf(r.val) = "invalid"
       THEN CliReturn(ErrV("invalid e_ident[EI_CLASS] should have been 1, 2 but was", r.val), r.pos)
       ELSE CliGoto("cli_endianness", r.pos, loc @@ [word_size |-> CliWordSizeOf(r.val)])

\* main.rs:190-201
CliReadEndianness ==
    /\ pc = "cli_endianness"
    /\ LET r == cli_byte IN
       IF ~r.ok THEN CliReturn(r.err, r.pos)
       ELSE IF CliEndiannessOf(r.val) = "invalid"
       THEN CliReturn(ErrV("invalid e_ident[EI_DATA] should have been 1, 2 but was", r.val), r.pos)
       ELSE /\ pc' = "cli_ident_version"
            /\ pos' = r.pos
            /\ loc' = loc @@ [endianness |-> CliEndiannessOf(r.val)]
            /\ endianness' = CliRegistered(CliEndiannessOf(r.val))
            /\ UNCHANGED <<stream, result, parked, process>>

\* main.rs:203-210
CliReadIdentVersion ==
    /\ pc = "cli_ident_version"
    /\ LET r == cli_byte IN
       IF ~r.ok THEN CliReturn(r.err, r.pos)
       ELSE IF ~CliIdentVersionOk(r.val)
       THEN CliReturn(ErrV("invalid e_ident[EI_VERSION] should have been 1 but was", r.val), r.pos)
       ELSE CliGoto("cli_abi", r.pos, loc)

\* main.rs:212-234
CliReadAbi ==
    /\ pc = "cli_abi"
    /\ LET r == cli_byte IN
       IF ~r.ok THEN CliReturn(r.err, r.pos)
       ELSE IF CliAbiOf(r.val) = "invalid"
       THEN CliReturn(ErrV("invalid e_ident[EI_OSABI]", r.val), r.pos)
       ELSE CliGoto("cli_abi_version", r.pos, loc @@ [abi |-> CliAbiOf(r.val)])

\* main.rs:236
CliReadAbiVersion ==
    /\ pc = "cli_abi_version"
    /\ LET r == cli_byte IN
       IF ~r.ok THEN CliReturn(r.err, r.pos)
       ELSE CliGoto("cli_padding", r.pos, loc @@ [abi_version |-> r.val])

\* main.rs:238-239
CliReadPadding ==
    /\ pc = "cli_padding"
    /\ LET r == cli_bytes_dynamic(7) IN
       IF ~r.ok THEN CliReturn(r.err, r.pos)
       ELSE CliGoto("cli_type_", r.pos, loc)

\* main.rs:241-251
CliReadType ==
    /\ pc = "cli_type_"
    /\ LET r == cli_u16 IN
       IF ~r.ok THEN CliReturn(r.err, r.pos)
       ELSE IF CliTypeOf(r.val).variant = "invalid"
       THEN CliReturn(ErrV("invalid e_type", r.val), r.pos)
       ELSE CliGoto("cli_machine", r.pos, loc @@ [type_ |-> CliTypeOf(r.val)])

\* main.rs:253
CliReadMachine ==
    /\ pc = "cli_machine"
    /\ LET r == cli_u16 IN
       IF ~r.ok THEN CliReturn(r.err, r.pos)
       ELSE CliGoto("cli_version", r.pos, loc @@ [machine |-> r.val])

\* main.rs:254
CliReadVersion ==
    /\ pc = "cli_version"
    /\ LET r == cli_u32 IN
       IF ~r.ok THEN CliReturn(r.err, r.pos)
       ELSE CliGoto("cli_entry_point", r.pos, loc @@ [version |-> r.val])

\* main.rs:260-271
CliReadEntryPoint ==
    /\ pc = "cli_entry_point"
    /\ LET r == cli_read_address(loc.word_size) IN
       IF ~r.ok THEN CliReturn(r.err, r.pos)
       ELSE CliGoto("cli_program_header_address", r.pos, loc @@ [entry_point |-> r.val])

\* main.rs:260-271
CliReadProgramHeaderAddress ==
    /\ pc = "cli_program_header_address"
    /\ LET r == cli_read_address(loc.word_size) IN
       IF ~r.ok THEN CliReturn(r.err, r.pos)
       ELSE CliGoto("cli_section_header_address", r.pos,
                 loc @@ [program_header_address |-> r.val])

\* main.rs:260-271
CliReadSectionHeaderAddress ==
    /\ pc = "cli_section_header_address"
    /\ LET r == cli_read_address(loc.word_size) IN
       IF ~r.ok THEN CliReturn(r.err, r.pos)
       ELSE CliGoto("cli_flags", r.pos, loc @@ [section_header_address |-> r.val])

\* main.rs:273
CliReadFlags ==
    /\ pc = "cli_flags"
    /\ LET r == cli_u32 IN
       IF ~r.ok THEN CliReturn(r.err, r.pos)
       ELSE CliGoto("cli_header_size", r.pos, loc @@ [flags |-> r.val])

\* main.rs:274
CliReadHeaderSize ==
    /\ pc = "cli_header_size"
    /\ LET r == cli_u16 IN
       IF ~r.ok THEN CliReturn(r.err, r.pos)
       ELSE CliGoto("cli_program_header_entry_size", r.pos, loc @@ [header_size |-> r.val])

\* main.rs:275
CliReadProgramHeaderEntrySize ==
    /\ pc = "cli_program_header_entry_size"
    /\ LET r == cli_u16 IN
       IF ~r.ok THEN CliReturn(r.err, r.pos)
       ELSE CliGoto("cli_program_header_entry_count", r.pos,
                 loc @@ [program_header_entry_size |-> r.val])

\* main.rs:276
CliReadProgramHeaderEntryCount ==
    /\ pc = "cli_program_header_entry_count"
    /\ LET r == cli_u16 IN
       IF ~r.ok THEN CliReturn(r.err, r.pos)
       ELSE CliGoto("cli_section_header_entry_size", r.pos,
                 loc @@ [program_header_entry_count |-> r.val])

\* main.rs:277
CliReadSectionHeaderEntrySize ==
    /\ pc = "cli_section_header_entry_size"
    /\ LET r == cli_u16 IN
       IF ~r.ok THEN CliReturn(r.err, r.pos)
       ELSE CliGoto("cli_section_header_entry_count", r.pos,
                 loc @@ [section_header_entry_size |-> r.val])

\* main.rs:278
CliReadSectionHeaderEntryCount ==
    /\ pc = "cli_section_header_entry_count"
    /\ LET r == cli_u16 IN
       IF ~r.ok THEN CliReturn(r.err, r.pos)
       ELSE CliGoto("cli_section_header_name_entry_idx", r.pos,
                 loc @@ [section_header_entry_count |-> r.val])

\* main.rs:281-299
Output(l, section_header_name_entry_idx) ==
    [word_size |-> l.word_size,
     endianness |-> l.endianness,
     abi |-> l.abi,
     abi_version |-> l.abi_version,
     type_ |-> l.type_,
     machine |-> l.machine,
     version |-> l.version,
     entry_point |-> l.entry_point,
     program_header_address |-> l.program_header_address,
     section_header_address |-> l.section_header_address,
     flags |-> l.flags,
     header_size |-> l.header_size,
     program_header_entry_size |-> l.program_header_entry_size,
     program_header_entry_count |-> l.program_header_entry_count,
     section_header_entry_size |-> l.section_header_entry_size,
     section_header_entry_count |-> l.section_header_entry_count,
     section_header_name_entry_idx |-> section_header_name_entry_idx]

\* main.rs:279-299
CliReadSectionHeaderNameEntryIdx ==
    /\ pc = "cli_section_header_name_entry_idx"
    /\ LET r == cli_u16 IN
       IF ~r.ok THEN CliReturn(r.err, r.pos)
       ELSE /\ result' = [kind |-> "Ok", header |-> Output(loc, r.val)]
            /\ pc' = "done"
            /\ pos' = r.pos
            /\ loc' = loc @@ [section_header_name_entry_idx |-> r.val]
            /\ UNCHANGED <<stream, endianness, parked, process>>

----------------------------------------------------------------------------
(* main.rs:7-20: the process.  `process` holds where main is, the number    *)
(* of arguments it was started with, whether the file it names can be       *)
(* opened, the lines printed so far and, once it has ended, its exit        *)
(* status.  `stream` is what the file holds.                                *)

\* main.rs:10, 14, 16: the lines println! writes.
Usage == [text |-> "usage: elf <FILE>"]
Debug(output) == [text |-> "{output:#?}", output |-> output]
ErrorLine(error) == [text |-> "error: {error}", error |-> error]

\* main.rs:11, 17: process::exit(status); main.rs:20: main returns, and the
\* runtime ends the process with status 0.
Exit(lines, status) ==
    process' = [status |-> status] @@
               [process EXCEPT !.pc = "exited", !.stdout = process.stdout \o lines]

\* main.rs:8-13
MainArgs ==
    /\ process.pc = "main"
    /\ IF process.argc # 2
       THEN /\ Exit(<<Usage>>, 1)
            /\ UNCHANGED <<stream, pos, endianness, pc, loc, result, parked>>
       ELSE /\ process' = [process EXCEPT !.pc = "cli"]
            /\ pc' = "cli_open"
            /\ UNCHANGED <<stream, pos, endianness, loc, result, parked>>

\* main.rs:13-19
MainMatch_error_falls_through ==
    /\ process.pc = "cli"
    /\ pc = "done"
    /\ IF result.kind = "Ok" THEN Exit(<<Debug(result.header)>>, 0)
                             ELSE Exit(<<ErrorLine(result)>>, 0)
    /\ UNCHANGED <<stream, pos, endianness, pc, loc, result, parked>>
MainMatch ==
    /\ process.pc = "cli"
    /\ pc = "done"
    /\ IF result.kind = "Ok" THEN Exit(<<Debug(result.header)>>, 0)
                             ELSE Exit(<<ErrorLine(result)>>, 1)
    /\ UNCHANGED <<stream, pos, endianness, pc, loc, result, parked>>

\* The numbers of arguments the program is started with: the program name
\* alone, with one file, with two.
ArgCounts == {1, 2, 3}

InitMain ==
    /\ process \in {[pc |-> "main", argc |-> n, openable |-> o, stdout |-> <<>>] :
                       n \in ArgCounts, o \in BOOLEAN}
    /\ stream \in IF process.argc = 2 /\ process.openable
                  THEN {Image(p) : p \in Files} ELSE {<<>>}
    /\ pos = 0
    /\ endianness = "None"
    /\ pc = "main"
    /\ loc = [x \in {} |-> 0]
    /\ result = [kind |-> "None"]
    /\ parked = NoDecode

NextMain ==
    \/ MainArgs
    \/ CliOpen
    \/ CliReadMagic
    \/ CliReadWordSize
    \/ CliReadEndianness
    \/ CliReadIdentVersion
    \/ CliReadAbi
    \/ CliReadAbiVersion
    \/ CliReadPadding
    \/ CliReadType
    \/ CliReadMachine
    \/ CliReadVersion
    \/ CliReadEntryPoint
    \/ CliReadProgramHeaderAddress
    \/ CliReadSectionHeaderAddress
    \/ CliReadFlags
    \/ CliReadHeaderSize
    \/ CliReadProgramHeaderEntrySize
    \/ CliReadProgramHeaderEntryCount
    \/ CliReadSectionHeaderEntrySize
    \/ CliReadSectionHeaderEntryCount
    \/ CliReadSectionHeaderNameEntryIdx
    \/ MainMatch

SpecMain == InitMain /\ [][NextMain]_vars

----------------------------------------------------------------------------
(* Two decodes.  Each call of Header::read has a Reader of its own          *)
(* (header.rs:105 takes it by &mut) and locals of its own.  The decode      *)
(* whose step is taken next is held in the six variables of `decode`; the   *)
(* other one waits in `parked`, and `parked.id` says which of the two it    *)
(* is.  The scheduler may change over before any step.                      *)

\* A decode as it waits: its Reader and its frame.
Waiting(i, s, p, e, c, l, r) ==
    [id |-> i, stream |-> s, pos |-> p, endianness |-> e, pc |-> c, loc |-> l,
     result |-> r]

\* The scheduler changes over to the other decode.
Switch_shared_endianness ==
    /\ parked.id # 0
    /\ stream' = parked.stream
    /\ pos' = parked.pos
    /\ endianness' = endianness
    /\ pc' = parked.pc
    /\ loc' = parked.loc
    /\ result' = parked.result
    /\ parked' = Waiting(3 - parked.id, stream, pos, parked.endianness, pc, loc, result)
    /\ UNCHANGED process
Switch ==
    /\ parked.id # 0
    /\ stream' = parked.stream
    /\ pos' = parked.pos
    /\ endianness' = parked.endianness
    /\ pc' = parked.pc
    /\ loc' = parked.loc
    /\ result' = parked.result
    /\ parked' = Waiting(3 - parked.id, stream, pos, endianness, pc, loc, result)
    /\ UNCHANGED process

\* The files the two decodes read: whole and cut short, of both word sizes
\* and both byte orders, and with a refused byte.
TwoFiles ==
         {[h EXCEPT !.len = n] : h \in {Valid(1, 1, 0), Valid(2, 2, 0)},
                                 n \in {5, 30, MaxLen}}
    \cup {[Valid(1, 2, 0) EXCEPT !.cls = 3],
          [Valid(2, 1, 0) EXCEPT !.data = 0],
          [Valid(1, 2, 0) EXCEPT !.t1 = 5]}

\* Two Readers from Reader::new (reader.rs:21-26), each at the entry of
\* its Header::read.
InitTwo ==
    /\ stream \in {Image(p) : p \in TwoFiles}
    /\ pos = 0
    /\ endianness = "None"
    /\ pc = "magic"
    /\ loc = [x \in {} |-> 0]
    /\ result = [kind |-> "None"]
    /\ parked \in {Waiting(2, Image(p), 0, "None", "magic", [x \in {} |-> 0],
                           [kind |-> "None"]) : p \in TwoFiles}
    /\ process = NoProcess

NextTwo ==
    \/ Switch
    \/ ReadMagic
    \/ ReadWordSize
    \/ ReadEndianness
    \/ ReadIdentVersion
    \/ ReadAbi
    \/ ReadAbiVersion
    \/ ReadPadding
    \/ ReadType
    \/ ReadMachine
    \/ ReadVersion
    \/ ReadEntryPoint
    \/ ReadProgramHeaderAddress
    \/ ReadSectionHeaderAddress
    \/ ReadFlags
    \/ ReadHeaderSize
    \/ ReadProgramHeaderEntrySize
    \/ ReadProgramHeaderEntryCount
    \/ ReadSectionHeaderEntrySize
    \/ ReadSectionHeaderEntryCount
    \/ ReadSectionHeaderNameEntryIdx

SpecTwo == InitTwo /\ [][NextTwo]_vars

----------------------------------------------------------------------------
(* Header::read and cli side by side.  Both decode the same file, each      *)
(* through a Reader of its own: Header::read starts as the running decode   *)
(* and cli as the waiting one, and they are run in step: a decode takes its *)
(* next statement unless it is ahead of the other one, and then the other   *)
(* one is run.                                                              *)

\* The statements of Header::read (header.rs:106-213) and of cli
\* (main.rs:175-279), in program order.
ReadLabels ==
    <<"magic", "word_size", "endianness", "ident_version", "abi",
      "abi_version", "padding", "type_", "machine", "version",
      "entry_point", "program_header_address", "section_header_address",
      "flags", "header_size", "program_header_entry_size",
      "program_header_entry_count", "section_header_entry_size",
      "section_header_entry_count", "section_header_name_entry_idx">>

CliLabels ==
    <<"cli_magic", "cli_word_size", "cli_endianness", "cli_ident_version",
      "cli_abi", "cli_abi_version", "cli_padding", "cli_type_",
      "cli_machine", "cli_version", "cli_entry_point",
      "cli_program_header_address", "cli_section_header_address",
      "cli_flags", "cli_header_size", "cli_program_header_entry_size",
      "cli_program_header_entry_count", "cli_section_header_entry_size",
      "cli_section_header_entry_count",
      "cli_section_header_name_entry_idx">>

\* How far a decode at c is: the number of its next statement, and one more
\* than the last after its return.
StepOf(c) ==
    IF c = "done" THEN Len(ReadLabels) + 1
    ELSE CHOOSE k \in 1..Len(ReadLabels) : ReadLabels[k] = c \/ CliLabels[k] = c

Ahead == StepOf(pc) > StepOf(parked.pc)

\* Reader::new of reader.rs (21-26) at the entry of Header::read, and
\* Reader::new of main.rs (109-114) in cli after File::open, on one file.
InitEquiv ==
    /\ stream \in {Image(p) : p \in Files}
    /\ pos = 0
    /\ endianness = "None"
    /\ pc = "magic"
    /\ loc = [x \in {} |-> 0]
    /\ result = [kind |-> "None"]
    /\ parked = Waiting(2, stream, 0, "None", "cli_magic", [x \in {} |-> 0],
                        [kind |-> "None"])
    /\ process = NoProcess

NextEquiv ==
    \/ Ahead /\ Switch
    \/ ~Ahead /\ ReadMagic
    \/ ~Ahead /\ ReadWordSize
    \/ ~Ahead /\ ReadEndianness
    \/ ~Ahead /\ ReadIdentVersion
    \/ ~Ahead /\ ReadAbi
    \/ ~Ahead /\ ReadAbiVersion
    \/ ~Ahead /\ ReadPadding
    \/ ~Ahead /\ ReadType
    \/ ~Ahead /\ ReadMachine
    \/ ~Ahead /\ ReadVersion
    \/ ~Ahead /\ ReadEntryPoint
    \/ ~Ahead /\ ReadProgramHeaderAddress
    \/ ~Ahead /\ ReadSectionHeaderAddress
    \/ ~Ahead /\ ReadFlags
    \/ ~Ahead /\ ReadHeaderSize
    \/ ~Ahead /\ ReadProgramHeaderEntrySize
    \/ ~Ahead /\ ReadProgramHeaderEntryCount
    \/ ~Ahead /\ ReadSectionHeaderEntrySize
    \/ ~Ahead /\ ReadSectionHeaderEntryCount
    \/ ~Ahead /\ ReadSectionHeaderNameEntryIdx
    \/ ~Ahead /\ CliReadMagic
    \/ ~Ahead /\ CliReadWordSize
    \/ ~Ahead /\ CliReadEndianness
    \/ ~Ahead /\ CliReadIdentVersion
    \/ ~Ahead /\ CliReadAbi
    \/ ~Ahead /\ CliReadAbiVersion
    \/ ~Ahead /\ CliReadPadding
    \/ ~Ahead /\ CliReadType
    \/ ~Ahead /\ CliReadMachine
    \/ ~Ahead /\ CliReadVersion
    \/ ~Ahead /\ CliReadEntryPoint
    \/ ~Ahead /\ CliReadProgramHeaderAddress
    \/ ~Ahead /\ CliReadSectionHeaderAddress
    \/ ~Ahead /\ CliReadFlags
    \/ ~Ahead /\ CliReadHeaderSize
    \/ ~Ahead /\ CliReadProgramHeaderEntrySize
    \/ ~Ahead /\ CliReadProgramHeaderEntryCount
    \/ ~Ahead /\ CliReadSectionHeaderEntrySize
    \/ ~Ahead /\ CliReadSectionHeaderEntryCount
    \/ ~Ahead /\ CliReadSectionHeaderNameEntryIdx

SpecEquiv == InitEquiv /\ [][NextEquiv]_vars

----------------------------------------------------------------------------
(* What the properties below say about a file, read from its bytes alone.   *)
(* Offsets count from 0, as in the layout of the header.                    *)

At(off) == stream[off + 1]

Has(n) == Len(stream) >= n

Done == pc = "done"

Failed(msg) == result.kind = "Err" /\ result.msg = msg

FailedWith(msg, v) == result = [kind |-> "Err", msg |-> msg, value |-> v]

Truncated == result = [kind |-> "Err", msg |-> "UnexpectedEof"]

Bound(field) == field \in DOMAIN loc

GoodMagic == Has(4) /\ At(0) = 127 /\ At(1) = 69 /\ At(2) = 76 /\ At(3) = 70

GoodWordSize == Has(5) /\ At(4) \in {1, 2}

GoodEndianness == Has(6) /\ At(5) \in {1, 2}

GoodIdentVersion == Has(7) /\ At(6) = 1

GoodAbi == Has(8) /\ At(7) \in (0..18) \ {5}

\* The unsigned 16-bit integer of the two bytes at off, in the byte order
\* that the byte at offset 5 names.
U16At(off) ==
    IF At(5) = 1 THEN At(off) + 256 * At(off + 1)
                 ELSE 256 * At(off) + At(off + 1)

\* The unsigned integer of the n bytes at off in that byte order, as a
\* numeral: the digit of weight 256^j is byte off+j when least significant
\* comes first, and byte off+n-1-j when most significant comes first.
NumAt(off, n) ==
    [k \in 1..n |-> IF At(5) = 1 THEN At(off + n - k) ELSE At(off + k - 1)]

\* Bytes of one address, by the byte at offset 4.
AddrLen == IF At(4) = 1 THEN 4 ELSE 8

GoodType == Has(18) /\ U16At(16) \in (0..4) \cup {65024, 65279, 65280, 65535}

----------------------------------------------------------------------------
(* C1: a file whose first four bytes are present and are not 7F 45 4C 46    *)
(* is never decoded past the magic step: the decode returns "not an ELF     *)
(* file" with the read position at exactly 4.                               *)
C1_BadMagicStopsAtFour ==
    (Has(4) /\ ~GoodMagic) =>
        /\ pc \in {"magic", "done"}
        /\ pc = "magic" => pos = 0
        /\ Done => result = [kind |-> "Err", msg |-> "not an ELF file"] /\ pos = 4

\* Only the last byte of the magic is wrong, and the file goes on after it.
C1_Witness ==
    /\ Done /\ Has(6)
    /\ At(0) = 127 /\ At(1) = 69 /\ At(2) = 76 /\ At(3) # 70
    /\ Failed("not an ELF file") /\ pos = 4

(* C2: whenever the decode is about to issue a u16, u32 or u64 read, the    *)
(* reader's endianness is set; and the decode never returns one of the      *)
(* "tried to read ... before endianness was defined" failures.              *)
NumericSteps ==
    {"type_", "machine", "version", "entry_point", "program_header_address",
     "section_header_address", "flags", "header_size", "program_header_entry_size",
     "program_header_entry_count", "section_header_entry_size",
     "section_header_entry_count", "section_header_name_entry_idx"}

C2_EndiannessSetBeforeNumericReads ==
    /\ pc \in NumericSteps => endianness \in {"Little", "Big"}
    /\ result.kind = "Err" =>
          result.msg \notin
            {"tried to read u16 before endianness was defined, this is a bug!",
             "tried to read u32 before endianness was defined, this is a bug!",
             "tried to read u64 before endianness was defined, this is a bug!"}

\* The first u16 read is about to be issued, on a big-endian file.
C2_Witness == pc = "type_" /\ endianness = "Big" /\ Has(18)

(* C3: in a returned record the three addresses carry the width of the      *)
(* record's word size, which is 32-bit iff byte 4 was 1 and 64-bit iff it   *)
(* was 2; each address holds 4 bytes of the file in the 32-bit case and 8   *)
(* in the 64-bit case, so that the three end at offset 36 or 48.            *)
C3_AddressWidthIsWordSize ==
    /\ result.kind = "Ok" =>
          LET h == result.header
              w == IF At(4) = 1 THEN "Bits32" ELSE "Bits64"
          IN /\ At(4) \in {1, 2}
             /\ h.word_size = w
             /\ \A a \in {h.entry_point, h.program_header_address,
                          h.section_header_address} :
                    a.width = w /\ Len(a.addr) = AddrLen
    /\ pc = "entry_point" => pos = 24
    /\ pc = "program_header_address" => pos = 24 + AddrLen
    /\ pc = "section_header_address" => pos = 24 + 2 * AddrLen
    /\ pc = "flags" => pos = 24 + 3 * AddrLen

\* A 64-bit big-endian record has been returned.
C3_Witness ==
    /\ result.kind = "Ok" /\ At(4) = 2 /\ At(5) = 2
    /\ result.header.section_header_address.width = "Bits64"

(* C4: every multi-byte field of a returned record is the unsigned integer  *)
(* of its bytes at the offsets of the layout table, in the byte order that  *)
(* byte 5 names (1: least significant byte first, 2: most significant       *)
(* first).                                                                  *)
TypeCode(t) ==
    CASE t.variant = "Unknown" -> 0
      [] t.variant = "Relocatable" -> 1
      [] t.variant = "Executable" -> 2
      [] t.variant = "SharedObject" -> 3
      [] t.variant = "Core" -> 4
      [] t.variant = "Other" -> t.code

C4_FieldsInResolvedByteOrder ==
    result.kind = "Ok" =>
        LET h == result.header
            n == AddrLen
        IN /\ At(5) \in {1, 2}
           /\ h.endianness = (IF At(5) = 1 THEN "Little" ELSE "Big")
           /\ TypeCode(h.type_) = U16At(16)
           /\ h.machine = U16At(18)
           /\ h.version = NumAt(20, 4)
           /\ h.entry_point.addr = NumAt(24, n)
           /\ h.program_header_address.addr = NumAt(24 + n, n)
           /\ h.section_header_address.addr = NumAt(24 + 2 * n, n)
           /\ h.flags = NumAt(24 + 3 * n, 4)
           /\ h.header_size = U16At(28 + 3 * n)
           /\ h.program_header_entry_size = U16At(30 + 3 * n)
           /\ h.program_header_entry_count = U16At(32 + 3 * n)
           /\ h.section_header_entry_size = U16At(34 + 3 * n)
           /\ h.section_header_entry_count = U16At(36 + 3 * n)
           /\ h.section_header_name_entry_idx = U16At(38 + 3 * n)

\* A little-endian record whose version and flags bytes are no palindromes,
\* so the other byte order would have given other values.
C4_Witness ==
    /\ result.kind = "Ok" /\ At(5) = 1
    /\ result.header.version # Reverse(result.header.version)
    /\ result.header.flags # Reverse(result.header.flags)
    /\ At(18) # At(19)

(* C5: after a correct magic, word-size byte 1 decodes to 32-bit and 2 to   *)
(* 64-bit and the decode goes on to the endianness byte; any other value v  *)
(* ends the decode with the invalid-EI_CLASS failure carrying v, the read   *)
(* position being 5.                                                        *)
C5_WordSizeByte ==
    (GoodMagic /\ Has(5)) =>
        IF At(4) \in {1, 2}
        THEN /\ pc \notin {"magic", "word_size"} =>
                   /\ Bound("word_size")
                   /\ loc.word_size = (IF At(4) = 1 THEN "Bits32" ELSE "Bits64")
             /\ Done => /\ ~Failed("invalid e_ident[EI_CLASS] should have been 1, 2 but was")
                        /\ pos > 5 \/ (Truncated /\ Len(stream) = 5)
        ELSE /\ pc \in {"magic", "word_size", "done"}
             /\ pos <= 5
             /\ ~Bound("word_size")
             /\ Done => /\ FailedWith("invalid e_ident[EI_CLASS] should have been 1, 2 but was",
                                      At(4))
                        /\ pos = 5

\* Word-size byte 3 in front of a valid endianness byte.
C5_Witness ==
    /\ Done /\ GoodMagic /\ Has(6) /\ At(4) = 3 /\ At(5) = 1
    /\ result.value = 3 /\ pos = 5

(* C6: after a correct magic and a valid word-size byte, an endianness byte *)
(* other than 1 or 2 ends the decode with the invalid-EI_DATA failure       *)
(* carrying that byte, at read position 6, with the reader's endianness     *)
(* still absent and no multi-byte field read.                               *)
C6_EndiannessByte ==
    (GoodMagic /\ GoodWordSize /\ Has(6) /\ At(5) \notin {1, 2}) =>
        /\ pc \in {"magic", "word_size", "endianness", "done"}
        /\ endianness = "None"
        /\ pos <= 6
        /\ Done => /\ FailedWith("invalid e_ident[EI_DATA] should have been 1, 2 but was",
                                 At(5))
                   /\ pos = 6

\* Endianness byte 0 in a file that goes on after it.
C6_Witness ==
    /\ Done /\ GoodMagic /\ GoodWordSize /\ Has(8) /\ At(5) = 0
    /\ result.value = 0 /\ pos = 6 /\ endianness = "None"

(* C7: after valid magic, word-size and endianness bytes, an identifier-    *)
(* version byte other than 1 ends the decode with the invalid-EI_VERSION    *)
(* failure carrying that byte, at read position 7, whatever follows.        *)
C7_IdentVersionByte ==
    (GoodMagic /\ GoodWordSize /\ GoodEndianness /\ Has(7) /\ At(6) # 1) =>
        /\ pc \in {"magic", "word_size", "endianness", "ident_version", "done"}
        /\ pos <= 7
        /\ Done => /\ FailedWith("invalid e_ident[EI_VERSION] should have been 1 but was",
                                 At(6))
                   /\ pos = 7

\* Identifier version 0 in front of an ABI byte that is itself invalid.
C7_Witness ==
    /\ Done /\ GoodMagic /\ GoodWordSize /\ GoodEndianness
    /\ Has(9) /\ At(6) = 0 /\ At(7) = 5
    /\ result.value = 0 /\ pos = 7

(* C8: the ABI byte is accepted for each of the 18 values 0x00-0x04 and     *)
(* 0x06-0x12, each mapped to a tag of its own; byte 0x05 and every value    *)
(* above 0x12 end the decode with the invalid-EI_OSABI failure carrying     *)
(* that value.                                                              *)
AbiCode(tag) ==
    CASE tag = "SystemV" -> 0
      [] tag = "HPUX" -> 1
      [] tag = "NetBSD" -> 2
      [] tag = "Linux" -> 3
      [] tag = "GNUHurd" -> 4
      [] tag = "Solaris" -> 6
      [] tag = "AIX" -> 7
      [] tag = "IRIX" -> 8
      [] tag = "FreeBSD" -> 9
      [] tag = "Tru64" -> 10
      [] tag = "NovellModesto" -> 11
      [] tag = "OpenBSD" -> 12
      [] tag = "OpenVMS" -> 13
      [] tag = "NonStopKernel" -> 14
      [] tag = "AROS" -> 15
      [] tag = "FenixOS" -> 16
      [] tag = "NuxiCloudABI" -> 17
      [] tag = "OpenVOS" -> 18

IdentValidBeforeAbi ==
    GoodMagic /\ GoodWordSize /\ GoodEndianness /\ GoodIdentVersion /\ Has(8)

AbiStepTaken == pc \notin {"magic", "word_size", "endianness", "ident_version", "abi"}

C8_AbiBytesAccepted ==
    (IdentValidBeforeAbi /\ AbiStepTaken) =>
        IF At(7) \in (0..18) \ {5}
        THEN /\ Bound("abi")
             /\ AbiCode(loc.abi) = At(7)
             /\ ~Failed("invalid e_ident[EI_OSABI]")
             /\ result.kind = "Ok" => AbiCode(result.header.abi) = At(7)
        ELSE /\ Done
             /\ FailedWith("invalid e_ident[EI_OSABI]", At(7))
             /\ pos = 8
             /\ ~Bound("abi")

\* The last accepted value, 0x12, has been decoded to its tag.
C8_Witness ==
    /\ IdentValidBeforeAbi /\ At(7) = 18
    /\ result.kind = "Ok" /\ result.header.abi = "OpenVOS"

\* The claim as first stated: each of the 19 values of the range 0x00-0x12
\* is accepted, and every value above 0x12 fails carrying that value.
C8_AllNineteenAccepted ==
    (IdentValidBeforeAbi /\ AbiStepTaken) =>
        IF At(7) \in 0..18
        THEN Bound("abi") /\ ~Failed("invalid e_ident[EI_OSABI]")
        ELSE Done /\ FailedWith("invalid e_ident[EI_OSABI]", At(7))

(* C9: the 16-bit object type, taken from bytes 16-17 in the resolved byte  *)
(* order, maps 0..4 to unknown, relocatable, executable, shared object and  *)
(* core, maps each of 0xFE00, 0xFEFF, 0xFF00, 0xFFFF to the other variant   *)
(* carrying that code, and for every other value ends the decode with the   *)
(* invalid-e_type failure carrying the value.                               *)
TypeStepTaken == Bound("abi_version") /\ pc \notin {"padding", "type_"}

C9_ObjectTypeTable ==
    (IdentValidBeforeAbi /\ GoodAbi /\ Has(18) /\ TypeStepTaken) =>
        LET v == U16At(16) IN
        CASE v \in 0..4 ->
                /\ Bound("type_")
                /\ loc.type_ = [variant |-> <<"Unknown", "Relocatable", "Executable",
                                              "SharedObject", "Core">>[v + 1]]
                /\ ~Failed("invalid e_type")
          [] v \in {65024, 65279, 65280, 65535} ->
                /\ Bound("type_")
                /\ loc.type_ = [variant |-> "Other", code |-> v]
                /\ ~Failed("invalid e_type")
          [] OTHER ->
                /\ Done
                /\ FailedWith("invalid e_type", v)
                /\ pos = 18
                /\ ~Bound("type_")

\* 0xFE01, strictly between two reserved codes, has been refused.
C9_Witness ==
    /\ IdentValidBeforeAbi /\ GoodAbi /\ Has(18) /\ Done
    /\ U16At(16) = 65025
    /\ FailedWith("invalid e_type", 65025)

(* C10: a read of n bytes with fewer than n bytes left ends the decode with *)
(* the end-of-file failure and no record.  So does every file of 0 to 3     *)
(* bytes, and every file shorter than its header whose validated fields,    *)
(* as far as they are present, are all valid.                               *)
ReadSize(step) ==
    CASE step = "magic" -> 4
      [] step \in {"word_size", "endianness", "ident_version", "abi", "abi_version"} -> 1
      [] step = "padding" -> 7
      [] step \in {"version", "flags"} -> 4
      [] step \in {"entry_point", "program_header_address", "section_header_address"} ->
            AddrLen
      [] OTHER -> 2

HeaderLen == IF Has(5) /\ At(4) = 1 THEN 52 ELSE 64

PresentFieldsValid ==
    /\ Has(4) => GoodMagic
    /\ Has(5) => GoodWordSize
    /\ Has(6) => GoodEndianness
    /\ Has(7) => GoodIdentVersion
    /\ Has(8) => GoodAbi
    /\ Has(18) => GoodType

C10_ShortFilesFailAtEndOfFile ==
    (Done /\ (~Has(4) \/ (PresentFieldsValid /\ ~Has(HeaderLen)))) => Truncated

C10_ShortReadFails ==
    (pc # "done" /\ pos + ReadSize(pc) > Len(stream)) => (Truncated /\ pc = "done")'

C10_Truncation ==
    /\ []C10_ShortFilesFailAtEndOfFile
    /\ [][C10_ShortReadFails]_vars

\* A file of exactly three bytes has failed at the end of the file.
C10_Witness == Done /\ Len(stream) = 3 /\ Truncated /\ pos = 3

(* C11: Header::read returns either a record with all 17 fields, each a     *)
(* decoded and validated value, or a failure that carries no record; while  *)
(* it runs the caller holds nothing.                                        *)
HeaderFields ==
    {"word_size", "endianness", "abi", "abi_version", "type_", "machine", "version",
     "entry_point", "program_header_address", "section_header_address", "flags",
     "header_size", "program_header_entry_size", "program_header_entry_count",
     "section_header_entry_size", "section_header_entry_count",
     "section_header_name_entry_idx"}

AbiTags ==
    {"SystemV", "HPUX", "NetBSD", "Linux", "GNUHurd", "Solaris", "AIX", "IRIX",
     "FreeBSD", "Tru64", "NovellModesto", "OpenBSD", "OpenVMS", "NonStopKernel",
     "AROS", "FenixOS", "NuxiCloudABI", "OpenVOS"}

TypeVariants == {"Unknown", "Relocatable", "Executable", "SharedObject", "Core", "Other"}

WholeRecord(h) ==
    /\ DOMAIN h = HeaderFields
    /\ Cardinality(DOMAIN h) = 17
    /\ h.word_size \in {"Bits32", "Bits64"}
    /\ h.endianness \in {"Little", "Big"}
    /\ h.abi \in AbiTags
    /\ h.abi_version \in 0..255
    /\ h.type_.variant \in TypeVariants
    /\ h.machine \in 0..65535
    /\ Len(h.version) = 4
    /\ \A f \in {"entry_point", "program_header_address", "section_header_address"} :
          h[f].width = h.word_size
    /\ Len(h.flags) = 4
    /\ \A f \in {"header_size", "program_header_entry_size", "program_header_entry_count",
                 "section_header_entry_size", "section_header_entry_count",
                 "section_header_name_entry_idx"} : h[f] \in 0..65535

C11_RecordOrFailure ==
    /\ pc # "done" => result = [kind |-> "None"]
    /\ Done => result.kind \in {"Ok", "Err"}
    /\ result.kind = "Ok" => DOMAIN result = {"kind", "header"} /\ WholeRecord(result.header)
    /\ result.kind = "Err" => "header" \notin DOMAIN result /\ "msg" \in DOMAIN result

\* A failure returned after fifteen of the fields had been bound.
C11_Witness ==
    /\ Done /\ result.kind = "Err" /\ Bound("flags") /\ Bound("program_header_entry_size")
    /\ "header" \notin DOMAIN result

(* C12: the reader's endianness starts absent; a step changes it only when  *)
(* it is absent and the step is the read of a valid endianness byte, and    *)
(* then to the value that byte denotes; once set it keeps its value through *)
(* every later read.                                                        *)
C12_EndiannessState ==
    /\ pc = "magic" => endianness = "None"
    /\ endianness # "None" =>
          /\ pos >= 6
          /\ GoodEndianness
          /\ endianness = (IF At(5) = 1 THEN "Little" ELSE "Big")

C12_EndiannessStep ==
    /\ endianness # "None" => endianness' = endianness
    /\ endianness' # endianness =>
          /\ pc = "endianness" /\ pos = 5 /\ pos' = 6
          /\ At(5) \in {1, 2}
          /\ endianness' = (IF At(5) = 1 THEN "Little" ELSE "Big")
    /\ (pc = "endianness" /\ pc' = "ident_version") => endianness' # "None"

C12_EndiannessSetOnce ==
    /\ []C12_EndiannessState
    /\ [][C12_EndiannessStep]_vars

\* Big-endian was registered and is still there after the last read.
C12_Witness ==
    /\ result.kind = "Ok" /\ endianness = "Big" /\ At(5) = 2 /\ pos >= 52

(* C13: a u16, u32 or u64 call on a reader whose endianness is absent       *)
(* returns the "tried to read ... before endianness was defined" failure    *)
(* and leaves position and endianness as they were; on a reader whose       *)
(* endianness is set the call fails only when fewer bytes are left than it  *)
(* needs, and then with the end-of-file failure of the exact read.          *)
NumericSize(op) == CASE op = "u16" -> 2 [] op = "u32" -> 4 [] op = "u64" -> 8

NotResolved(op) ==
    [kind |-> "Err",
     msg |-> CASE op = "u16" -> "tried to read u16 before endianness was defined, this is a bug!"
               [] op = "u32" -> "tried to read u32 before endianness was defined, this is a bug!"
               [] op = "u64" -> "tried to read u64 before endianness was defined, this is a bug!"]

C13_NumericCall ==
    (pc = "caller" /\ loc'.op \in {"u16", "u32", "u64"}) =>
        IF endianness = "None"
        THEN /\ result' = NotResolved(loc'.op)
             /\ pos' = pos
             /\ endianness' = "None"
        ELSE /\ endianness' = endianness
             /\ IF pos + NumericSize(loc'.op) <= Len(stream)
                THEN result'.kind = "Ok" /\ pos' = pos + NumericSize(loc'.op)
                ELSE result' = [kind |-> "Err", msg |-> "UnexpectedEof"]

C13_NumericReadNeedsEndianness == [][C13_NumericCall]_vars

\* u32 was called with endianness absent in the middle of a file that had
\* the four bytes: it failed and consumed none of them.
C13_Witness ==
    /\ pc = "caller" /\ loc.op = "u32" /\ endianness = "None"
    /\ result = NotResolved("u32")
    /\ pos > 0 /\ pos + 4 <= Len(stream)

(* C16: Header::read returns a record exactly when the magic is right,      *)
(* byte 4 is 1 or 2, byte 5 is 1 or 2, byte 6 is 1, byte 7 is an accepted   *)
(* ABI value, the 16-bit value at offset 16 is an accepted object type and  *)
(* the file holds the whole header.  No other field can make it fail: the   *)
(* only failures are those of the six validated fields and the end of file. *)
WholeHeaderValid ==
    /\ GoodMagic /\ GoodWordSize /\ GoodEndianness /\ GoodIdentVersion /\ GoodAbi
    /\ GoodType
    /\ Has(HeaderLen)

ValidationFailures ==
    {"not an ELF file",
     "invalid e_ident[EI_CLASS] should have been 1, 2 but was",
     "invalid e_ident[EI_DATA] should have been 1, 2 but was",
     "invalid e_ident[EI_VERSION] should have been 1 but was",
     "invalid e_ident[EI_OSABI]",
     "invalid e_type",
     "UnexpectedEof"}

C16_SuccessIffValidatedFieldsValid ==
    Done => /\ result.kind = "Ok" <=> WholeHeaderValid
            /\ result.kind = "Err" => result.msg \in ValidationFailures

\* A record whose 32-bit version is not 1, whose ABI version is not 0 and
\* whose padding is not all zero.
C16_Witness ==
    /\ result.kind = "Ok"
    /\ result.header.version # <<0, 0, 0, 1>>
    /\ result.header.abi_version # 0
    /\ \E off \in 9..15 : At(off) # 0

(* C17: a failure is terminal and is that of the earliest offending field:  *)
(* after Header::read has returned no step runs, the read position never    *)
(* decreases, and the failure returned is the one of the lowest-offset      *)
(* field that is cut short by the end of the file or holds an invalid       *)
(* value.                                                                   *)
FieldOrder ==
    <<"magic", "word_size", "endianness", "ident_version", "abi", "abi_version",
      "padding", "type_", "machine", "version", "entry_point",
      "program_header_address", "section_header_address", "flags", "header_size",
      "program_header_entry_size", "program_header_entry_count",
      "section_header_entry_size", "section_header_entry_count",
      "section_header_name_entry_idx">>

\* The layout of a file s: how long an address is, and for the k-th field
\* its size and its offset.
AddrLenOf(s) == IF Len(s) >= 5 /\ s[5] = 1 THEN 4 ELSE 8

SizeOf(s, k) ==
    <<4, 1, 1, 1, 1, 1, 7, 2, 2, 4, AddrLenOf(s), AddrLenOf(s), AddrLenOf(s),
      4, 2, 2, 2, 2, 2, 2>>[k]

OffsetOf(s, k) ==
    LET n == AddrLenOf(s) IN
    <<0, 4, 5, 6, 7, 8, 9, 16, 18, 20, 24, 24 + n, 24 + 2 * n, 24 + 3 * n,
      28 + 3 * n, 30 + 3 * n, 32 + 3 * n, 34 + 3 * n, 36 + 3 * n, 38 + 3 * n>>[k]

Present(s, k) == Len(s) >= OffsetOf(s, k) + SizeOf(s, k)

U16In(s, off) ==
    IF s[6] = 1 THEN s[off + 1] + 256 * s[off + 2] ELSE 256 * s[off + 1] + s[off + 2]

NumIn(s, off, n) ==
    [k \in 1..n |-> IF s[6] = 1 THEN s[off + n - k + 1] ELSE s[off + k]]

\* The failure of the k-th field of s, when its value is refused.
Refusal(s, k) ==
    CASE k = 1 /\ SubSeq(s, 1, 4) # <<127, 69, 76, 70>> ->
            [kind |-> "Err", msg |-> "not an ELF file"]
      [] k = 2 /\ s[5] \notin {1, 2} ->
            [kind |-> "Err", value |-> s[5],
             msg |-> "invalid e_ident[EI_CLASS] should have been 1, 2 but was"]
      [] k = 3 /\ s[6] \notin {1, 2} ->
            [kind |-> "Err", value |-> s[6],
             msg |-> "invalid e_ident[EI_DATA] should have been 1, 2 but was"]
      [] k = 4 /\ s[7] # 1 ->
            [kind |-> "Err", value |-> s[7],
             msg |-> "invalid e_ident[EI_VERSION] should have been 1 but was"]
      [] k = 5 /\ s[8] \notin (0..18) \ {5} ->
            [kind |-> "Err", value |-> s[8], msg |-> "invalid e_ident[EI_OSABI]"]
      [] k = 8 /\ U16In(s, 16) \notin (0..4) \cup {65024, 65279, 65280, 65535} ->
            [kind |-> "Err", value |-> U16In(s, 16), msg |-> "invalid e_type"]
      [] OTHER -> [kind |-> "None"]

Offending(s) == {k \in 1..20 : ~Present(s, k) \/ Refusal(s, k).kind = "Err"}

Earliest(s) == CHOOSE k \in Offending(s) : \A j \in Offending(s) : k <= j

ExpectedFailure(s) ==
    IF Present(s, Earliest(s)) THEN Refusal(s, Earliest(s))
                               ELSE [kind |-> "Err", msg |-> "UnexpectedEof"]

ExpectedPos(s) ==
    CASE Offending(s) = {} -> OffsetOf(s, 20) + 2
      [] Offending(s) # {} /\ Present(s, Earliest(s)) ->
            OffsetOf(s, Earliest(s)) + SizeOf(s, Earliest(s))
      [] OTHER -> Len(s)

C17_FailureState ==
    /\ Done => ~ENABLED Next
    /\ (Done /\ Offending(stream) # {}) =>
          /\ result = ExpectedFailure(stream)
          /\ pos = ExpectedPos(stream)
    /\ (Done /\ result.kind = "Err") => Offending(stream) # {}

C17_FailureStep == ~Done /\ pos' >= pos

C17_EarliestFailureIsTerminal ==
    /\ []C17_FailureState
    /\ [][C17_FailureStep]_vars

\* Word-size byte 3 and endianness byte 9 at once: the word size is reported.
C17_Witness ==
    /\ Done /\ GoodMagic /\ Has(7) /\ At(4) = 3 /\ At(5) = 9
    /\ result.value = 3 /\ pos = 5

(* C18: a record is returned with exactly 52 bytes consumed for a 32-bit    *)
(* file and 64 for a 64-bit file; every read starts where the one before    *)
(* ended and takes the size of its field, which puts the object type at     *)
(* offset 16, machine at 18, version at 20 and the entry point at 24; no    *)
(* byte after the header is consumed.                                       *)
C18_ConsumedState ==
    /\ result.kind = "Ok" => pos = (IF At(4) = 1 THEN 52 ELSE 64)
    /\ pc = "magic" => pos = 0
    /\ pc = "type_" => pos = 16
    /\ pc = "machine" => pos = 18
    /\ pc = "version" => pos = 20
    /\ pc = "entry_point" => pos = 24
    /\ pos <= HeaderLen
    /\ pos <= Len(stream)

C18_ConsumedStep ==
    (result'.kind # "Err") => pos' = pos + ReadSize(pc)

C18_ConsumesExactlyTheHeader ==
    /\ []C18_ConsumedState
    /\ [][C18_ConsumedStep]_vars

\* A 32-bit record returned from a file that goes on after its 52 bytes.
C18_Witness ==
    /\ result.kind = "Ok" /\ At(4) = 1 /\ pos = 52 /\ Len(stream) > 52

(* C19: on every file Header::read terminates, having returned a record or  *)
(* a failure, after at most 20 reads: each step is one read, moves to the   *)
(* next field of the layout or returns, and is never waited for.            *)
Rank(step) ==
    IF step = "done" THEN 21
    ELSE CHOOSE k \in 1..20 : FieldOrder[k] = step

C19_ReadStep ==
    /\ Rank(pc) <= 20
    /\ pc' = "done" \/ Rank(pc') = Rank(pc) + 1

C19_TerminatesWithinTwentyReads ==
    /\ <>Done
    /\ [](Done => result.kind \in {"Ok", "Err"})
    /\ [](~Done => ENABLED Next)
    /\ [][C19_ReadStep]_vars

\* The longest run: the twentieth read has returned the record of a 64-bit
\* file.
C19_Witness == Done /\ result.kind = "Ok" /\ pos = 64 /\ Rank(pc) = 21

----------------------------------------------------------------------------
(* C15 *)

Exited == process.pc = "exited"

\* The process was started with one file name, so that main called cli.
Decoded == process.argc = 2

\* C15: when the process ends after a successful decode it has printed the
\* record and nothing else, and its exit status is 0; when it ends after a
\* failed decode, a file that cannot be opened included, it has printed the
\* line of that failure and nothing else, and its exit status is not 0.  The
\* decode of an opened file fails exactly when a field of the file is
\* missing or refused, so no such file ends with status 0.
C15_ExitStatusFollowsOutcome ==
    (Exited /\ Decoded) =>
        /\ result.kind \in {"Ok", "Err"}
        /\ result.kind = "Ok" =>
              /\ process.status = 0
              /\ process.stdout = <<[text |-> "{output:#?}", output |-> result.header]>>
        /\ result.kind = "Err" =>
              /\ process.status # 0
              /\ process.stdout = <<[text |-> "error: {error}", error |-> result]>>
        /\ ~process.openable => result = OpenError
        /\ process.openable =>
              /\ (Offending(stream) # {}) = (result.kind = "Err")
              /\ (Offending(stream) # {}) => result = ExpectedFailure(stream)

\* The process has ended after the file could not be opened; and, in other
\* runs, after a decode that failed on a byte of the file.
C15_Witness ==
    /\ Exited
    /\ Decoded
    /\ ~process.openable
    /\ process.status = 1
    /\ process.stdout = <<[text |-> "error: {error}", error |-> OpenError]>>

----------------------------------------------------------------------------
(* C14 *)

\* What a decode of the file s that runs alone returns and leaves behind,
\* read from the bytes of s.
AbiTable ==
    <<"SystemV", "HPUX", "NetBSD", "Linux", "GNUHurd", "", "Solaris", "AIX",
      "IRIX", "FreeBSD", "Tru64", "NovellModesto", "OpenBSD", "OpenVMS",
      "NonStopKernel", "AROS", "FenixOS", "NuxiCloudABI", "OpenVOS">>

TypeTable == <<"Unknown", "Relocatable", "Executable", "SharedObject", "Core">>

OrderOf(s) == IF s[6] = 1 THEN "Little" ELSE "Big"

WidthOf(s) == IF s[5] = 1 THEN "Bits32" ELSE "Bits64"

AddressIn(s, k) ==
    [width |-> WidthOf(s), addr |-> NumIn(s, OffsetOf(s, k), AddrLenOf(s))]

RecordOf(s) ==
    [word_size |-> WidthOf(s),
     endianness |-> OrderOf(s),
     abi |-> AbiTable[s[8] + 1],
     abi_version |-> s[9],
     type_ |-> IF U16In(s, 16) <= 4 THEN [variant |-> TypeTable[U16In(s, 16) + 1]]
               ELSE [variant |-> "Other", code |-> U16In(s, 16)],
     machine |-> U16In(s, 18),
     version |-> NumIn(s, 20, 4),
     entry_point |-> AddressIn(s, 11),
     program_header_address |-> AddressIn(s, 12),
     section_header_address |-> AddressIn(s, 13),
     flags |-> NumIn(s, OffsetOf(s, 14), 4),
     header_size |-> U16In(s, OffsetOf(s, 15)),
     program_header_entry_size |-> U16In(s, OffsetOf(s, 16)),
     program_header_entry_count |-> U16In(s, OffsetOf(s, 17)),
     section_header_entry_size |-> U16In(s, OffsetOf(s, 18)),
     section_header_entry_count |-> U16In(s, OffsetOf(s, 19)),
     section_header_name_entry_idx |-> U16In(s, OffsetOf(s, 20))]

AloneResult(s) ==
    IF Offending(s) = {} THEN [kind |-> "Ok", header |-> RecordOf(s)]
                         ELSE ExpectedFailure(s)

\* The endianness of the Reader of s once k fields have been read.
OrderAfter(s, k) == IF k >= 3 THEN OrderOf(s) ELSE "None"

AloneEndianness(s) ==
    IF Offending(s) = {} THEN OrderOf(s)
    ELSE IF Present(s, Earliest(s)) /\ Earliest(s) <= 3 THEN "None"
    ELSE OrderAfter(s, Earliest(s) - 1)

\* The field a decode at c reads next.
FieldAt(c) == CHOOSE k \in 1..20 : FieldOrder[k] = c

\* A decode d is where the same decode is when it runs alone: before its
\* k-th read it has consumed the fields before the k-th and has registered
\* the endianness if that was one of them, and after its return it holds
\* the result, the position and the endianness of the decode that ran alone.
AsAlone(d) ==
    IF d.pc = "done"
    THEN /\ d.result = AloneResult(d.stream)
         /\ d.pos = ExpectedPos(d.stream)
         /\ d.endianness = AloneEndianness(d.stream)
    ELSE /\ d.result = [kind |-> "None"]
         /\ d.pos = OffsetOf(d.stream, FieldAt(d.pc))
         /\ d.endianness = OrderAfter(d.stream, FieldAt(d.pc) - 1)

Running == Waiting(3 - parked.id, stream, pos, endianness, pc, loc, result)

C14_EachAsAlone == AsAlone(Running) /\ AsAlone(parked)

\* A step is either a read of the running decode, which leaves every part
\* of the waiting decode as it was (its stream, position and endianness
\* among them) and does not replace its own stream, or a change-over, which
\* hands each decode over whole.
C14_OwnSourceOnly ==
    \/ /\ parked' = parked
       /\ stream' = stream
    \/ /\ parked' = Running
       /\ Running' = parked

\* C14: however the steps of two decodes over two sources are interleaved,
\* each decode is at every moment where it would be had it run alone, and
\* returns the same result and leaves the same position and endianness; and
\* no read of one decode changes anything of the other.
C14_InterleavedAsAlone == [](C14_EachAsAlone) /\ [][C14_OwnSourceOnly]_vars

\* One decode has returned a record while the other, of the other byte
\* order, has registered its endianness and is in the middle of its reads.
C14_Witness ==
    /\ parked.id # 0
    /\ pc = "done"
    /\ result.kind = "Ok"
    /\ parked.pc = "machine"
    /\ parked.endianness \in {"Little", "Big"}
    /\ parked.endianness # endianness

----------------------------------------------------------------------------
(* C20 *)

\* Both decodes have as many statements behind them.
Level == StepOf(pc) = StepOf(parked.pc)

\* C20: Header::read and cli, run on the same file, are level again after
\* every statement: with as many statements behind them they have read the
\* same bytes (same position), registered the same endianness, bound the
\* same values to the same fields and, once returned, hold the same result,
\* record or failure with its carried value.  Between two such moments one
\* of them is one statement ahead, or has returned where the other is about
\* to.
C20_CliEquivalentToHeaderRead ==
    /\ parked.stream = stream
    /\ Level =>
          /\ parked.pos = pos
          /\ parked.endianness = endianness
          /\ parked.loc = loc
          /\ parked.result = result
    /\ ~Level =>
          \/ StepOf(pc) = StepOf(parked.pc) + 1
          \/ StepOf(parked.pc) = StepOf(pc) + 1
          \/ pc = "done" /\ parked.pos <= pos
          \/ parked.pc = "done" /\ pos <= parked.pos

\* Both have returned the record of a whole header, and the same one.
C20_Witness ==
    /\ parked.id # 0
    /\ pc = "done"
    /\ parked.pc = "done"
    /\ result.kind = "Ok"
    /\ parked.result = result
    /\ parked.pos = pos
    /\ pos \in {52, 64}

====
